---------------------------- MODULE Spec2Model ----------------------------
(***************************************************************************)
(* A model of the currying decorators of currier.py / currier_pt.py.       *)
(*                                                                         *)
(* Python functions and closures are objects on a heap: a callable value   *)
(* is a reference (an index of heap), a closure holds the reference of the *)
(* function it closes over and the values it remembers.  Calling a         *)
(* callable is the operator Call, which follows the body of each def of    *)
(* the source; a call either returns a value or raises, and it may         *)
(* allocate new closures.  A driver applies a decorator to a target and    *)
(* then calls the decorated function stage by stage.                       *)
(***************************************************************************)
EXTENDS Integers, Sequences, FiniteSets, TLC

(* ------------------------------ bounds -------------------------------- *)
\* the largest integer a recursive function is called with
MaxN == 5
\* the largest number of calls of a recursive function in one session
MaxRuns == 3
\* the largest number of parameters of a target function
MaxArity == 3
\* the largest number of accepted calls along one chain g(..)(..)...
MaxCalls == 4

(* --------------------------- Python values ---------------------------- *)
IntV(n)   == [n |-> n, t |-> "int"]
NoneV     == [t |-> "none"]
FnV(r)    == [t |-> "fn", ref |-> r]
\* the result of an opaque target: it keeps the arguments it was applied to
TupV(a)   == [t |-> "tup", args |-> a]

IsFn(v)   == v.t = "fn"

\* the values a caller supplies: two distinct ints and None
Vals == {IntV(1), IntV(2), NoneV}

(* ---------------- outcome of a call: return or raise ------------------ *)
Ret(v) == [tag |-> "ret", val |-> v, exc |-> "", at |-> "", why |-> ""]
Raise(exc, at, why) ==
    [tag |-> "raise", val |-> NoneV, exc |-> exc, at |-> at, why |-> why]
NoCall == [tag |-> "none", val |-> NoneV, exc |-> "", at |-> "", why |-> ""]

\* what Call gives: the heap after the call, its outcome, and how many
\* times the body of a target ran during the call
Res(h, out, ran) == [heap |-> h, out |-> out, ran |-> ran]

\* Binding the positional arguments of a  def name(p1, .., pn):  a call
\* with another number of values raises TypeError before the body runs
\* ("name() missing 1 required positional argument" /
\*  "name() takes 1 positional argument but 2 were given").
ArityError(name, n, given) ==
    Raise("TypeError", name, IF given < n THEN "missing" ELSE "too_many")

(* --------------------------- the targets ------------------------------ *)
\* def add_N(x, y, ..): return x + y + ..      (add_4, add_5 of the source)
\* int + None raises TypeError inside the body; one operand alone is
\* returned as it is.
RECURSIVE SumInts(_)
SumInts(a) == IF a = <<>> THEN 0 ELSE Head(a).n + SumInts(Tail(a))

add_body(a) ==
    IF Len(a) = 1 THEN Ret(a[1])
    ELSE IF \E i \in 1..Len(a) : a[i].t # "int"
         THEN Raise("TypeError", "add", "body")
         ELSE Ret(IntV(SumInts(a)))

\* an arbitrary target func: it returns a value that depends on every
\* argument and on their order, and it may reject None with the exception
\* o.exc ("TypeError": a value of the wrong type, "ValueError": the
\* target's own logic raising, "": None is accepted)
func_body(o, a) ==
    IF o.exc # "" /\ \E i \in 1..Len(a) : a[i] = NoneV
    THEN Raise(o.exc, "func", "body")
    ELSE Ret(TupV(a))

TargetBody(o, a) == IF o.body = "add" THEN add_body(a) ELSE func_body(o, a)

TargetName(o) == IF o.body = "add" THEN "add" ELSE "func"

AddTarget(n)       == [kind |-> "target", body |-> "add", arity |-> n, exc |-> ""]
FuncTarget(n, exc) == [kind |-> "target", body |-> "func", arity |-> n, exc |-> exc]

Targets ==
    {AddTarget(n) : n \in 1..MaxArity}
    \cup {FuncTarget(n, e) : n \in 1..MaxArity, e \in {"", "TypeError", "ValueError"}}

\* the functions written for decorador_y: def fact(rec, n), and an
\* arbitrary func(rec, n) whose value keeps what it was given and what the
\* call rec(n-1) gave it
RecTarget(body) == [kind |-> "rec_target", body |-> body, arity |-> 2, exc |-> ""]

RecTargets == {RecTarget("fact"), RecTarget("func")}

\* a line written by print: f'T menos {n}s para o lançamento' is Line(n);
\* a launch message is Launch(who), who being the function that wrote it
Line(k) == [n |-> k, text |-> "T menos"]

Launch(who) == [n |-> 0, text |-> who]

\* sys.stdout, an object of the heap: bound is what was written to it
stdout_def == [kind |-> "stdout", func |-> 0, bound |-> <<>>]

\* print(line)
print(h, line) ==
    LET s == CHOOSE r \in DOMAIN h : h[r].kind = "stdout"
    IN  [h EXCEPT ![s].bound = Append(@, line)]

\* def t_menos_loop(t)
t_menos_loop_def == [kind |-> "t_menos_loop", func |-> 0, bound |-> <<>>]

\* def t_menos_recursao(t); func is the global name the body calls, which
\* is bound to the function itself
t_menos_recursao_def(self) ==
    [kind |-> "t_menos_recursao", func |-> self, bound |-> <<>>]

\* for n in range(t, 0, -1): print(f'T menos {n}s para o lançamento')
RECURSIVE t_menos_loop_for(_, _)
t_menos_loop_for(h, n) ==
    IF n <= 0 THEN h
    ELSE t_menos_loop_for(print(h, Line(n)), n - 1)

\* t_menos_loop(*a), t an int
t_menos_loop(h, o, a) ==
    IF Len(a) # 1 THEN Res(h, ArityError("t_menos_loop", 1, Len(a)), 0)
    ELSE Res(print(t_menos_loop_for(h, a[1].n), Launch("t_menos_loop")),
             Ret(NoneV), 1)

\* calling a target: bind the parameters, then run the body once
target_call(h, o, a) ==
    IF Len(a) # o.arity
    THEN Res(h, ArityError(TargetName(o), o.arity, Len(a)), 0)
    ELSE Res(h, TargetBody(o, a), 1)

(* --------------------------- the closures ----------------------------- *)
\* a closure object: the def it is an instance of, the function it closes
\* over and the values it closes over
Closure(kind, func, bound) == [kind |-> kind, func |-> func, bound |-> bound]

\* allocation of a new object: its reference is the next index of the heap
Alloc(h, o) == [heap |-> Append(h, o), ref |-> Len(h) + 1]

\* def fst_arg_curry(uncurried_func): ... return get_fst_arg
fst_arg_curry(h, func) == Alloc(h, Closure("get_fst_arg", func, <<>>))

\* def curry(func): ... return get_one_arg
curry(h, func) == Alloc(h, Closure("get_one_arg", func, <<>>))

\* def curry_ultimo(func): ... return func_sem_ultimo
curry_ultimo(h, func) == Alloc(h, Closure("func_sem_ultimo", func, <<>>))

\* def curry_last(func): ... return func_with_last_applied
curry_last(h, func) == Alloc(h, Closure("func_with_last_applied", func, <<>>))

\* def keep_currying_it(func): ... return get_one_arg
keep_currying_it(h, func) == Alloc(h, Closure("keep_currying_it_get_one_arg", func, <<>>))

\* (mutant) def get_fst_arg(*xs): every value given is remembered
get_fst_arg_star(h, o, a) ==
    LET n == Alloc(h, Closure("get_other_args", o.func, a))
    IN  Res(n.heap, Ret(FnV(n.ref)), 0)

\* def auto_aplicador(func): ... return func_auto_aplicada
auto_aplicador(h, func) == Alloc(h, Closure("func_auto_aplicada", func, <<>>))

\* def auto_aplica_func_interna(func): ... return nova_func
auto_aplica_func_interna(h, func) == Alloc(h, Closure("nova_func", func, <<>>))

\* def decorador_y(func):
\*     return auto_aplicador( auto_aplica_func_interna(func) )
decorador_y(h, func) ==
    LET interna == auto_aplica_func_interna(h, func)
    IN  auto_aplicador(interna.heap, interna.ref)

\* def get_fst_arg(x): ... return get_other_args
get_fst_arg(h, o, a) ==
    IF Len(a) # 1 THEN Res(h, ArityError("get_fst_arg", 1, Len(a)), 0)
    ELSE LET n == Alloc(h, Closure("get_other_args", o.func, <<a[1]>>))
         IN  Res(n.heap, Ret(FnV(n.ref)), 0)

\* (mutant) uncurried_func(*args, x): the remembered value passed last
get_other_args_argv_last(o, a) == a \o o.bound

\* the argument list of  uncurried_func(x, *args)  in get_other_args
get_other_args_argv(o, a) == o.bound \o a

\* def func_sem_ultimo(*args): ... return recebe_ultimo
func_sem_ultimo(h, o, a) ==
    LET n == Alloc(h, Closure("recebe_ultimo", o.func, a))
    IN  Res(n.heap, Ret(FnV(n.ref)), 0)

\* (mutant) func(arg, *args): the value of the last call passed first
recebe_ultimo_argv_first(o, a) == a \o o.bound

\* the argument list of  func(*args, arg)  in recebe_ultimo
recebe_ultimo_argv(o, a) == o.bound \o a

\* def func_with_last_applied(*args): ... return get_last_arg
func_with_last_applied(h, o, a) ==
    LET n == Alloc(h, Closure("get_last_arg", o.func, a))
    IN  Res(n.heap, Ret(FnV(n.ref)), 0)

\* (mutant) func(arg, *args): the value of the last call passed first
get_last_arg_argv_first(o, a) == a \o o.bound

\* the argument list of  func(*args, arg)  in get_last_arg
get_last_arg_argv(o, a) == o.bound \o a

\* for _ in range(k): func = curry_last(func)
RECURSIVE curry_last_times(_, _, _)
curry_last_times(h, func, k) ==
    IF k <= 0 THEN [heap |-> h, ref |-> func]
    ELSE LET c == curry_last(h, func)
         IN  curry_last_times(c.heap, c.ref, k - 1)

\* (mutant) for _ in range(n): one application too many
curry_n_args_range_n(h, n, func) == curry_last_times(h, func, n)

\* (mutant) the target's own parameters are counted and n is ignored
curry_n_args_by_arity(h, n, func) == curry_last_times(h, func, h[func].arity - 1)

\* def curry_n_args(n, func):
\*     for _ in range(n-1): func = curry_last(func)
\*     return func
curry_n_args(h, n, func) == curry_last_times(h, func, n - 1)

\* the function object of  def curry_n_args(n, func)  and a call of it
curry_n_args_def == [kind |-> "curry_n_args", func |-> 0, bound |-> <<>>]

curry_n_args_call(h, o, a) ==
    IF Len(a) # 2 THEN Res(h, ArityError("curry_n_args", 2, Len(a)), 0)
    ELSE LET d == curry_n_args(h, a[1].n, a[2].ref)
         IN  Res(d.heap, Ret(FnV(d.ref)), 0)

\* except TypeError:  the failures of the trial call func(arg) that
\* get_one_arg intercepts
except_TypeError(out) == out.tag = "raise" /\ out.exc = "TypeError"

RECURSIVE Call(_, _, _)

\* (mutant) def get_one_arg(*args): any number of values is accepted and
\* the first one, if any, is used
get_one_arg_variadic(h, o, a) ==
    LET a1  == IF a = <<>> THEN <<>> ELSE <<a[1]>>
        try == Call(h, o.func, a1)
    IN  IF except_TypeError(try.out)
        THEN LET n == Alloc(try.heap, Closure("get_other_args", o.func, a1))
                 c == curry(n.heap, n.ref)
             IN  Res(c.heap, Ret(FnV(c.ref)), try.ran)
        ELSE try

\* (mutant) def get_one_arg(arg=None): a call without a value binds None
get_one_arg_default(h, o, a) ==
    IF Len(a) > 1 THEN Res(h, ArityError("get_one_arg", 1, Len(a)), 0)
    ELSE LET a1  == IF a = <<>> THEN <<NoneV>> ELSE a
             try == Call(h, o.func, a1)
         IN  IF except_TypeError(try.out)
             THEN LET n == Alloc(try.heap, Closure("get_other_args", o.func, a1))
                      c == curry(n.heap, n.ref)
                  IN  Res(c.heap, Ret(FnV(c.ref)), try.ran)
             ELSE try

\* (mutant) the trial call only probes, and func is called again for the
\* value:  try: func(arg)  except TypeError: ...  else: return func(arg)
get_one_arg_probe(h, o, a) ==
    IF Len(a) # 1 THEN Res(h, ArityError("get_one_arg", 1, Len(a)), 0)
    ELSE LET try == Call(h, o.func, a)
         IN  IF except_TypeError(try.out)
             THEN LET d       == fst_arg_curry(try.heap, o.func)
                      applied == Call(d.heap, d.ref, a)
                      c       == curry(applied.heap, applied.out.val.ref)
                  IN  Res(c.heap, Ret(FnV(c.ref)), try.ran + applied.ran)
             ELSE IF try.out.tag = "raise" THEN try
             ELSE LET again == Call(try.heap, o.func, a)
                  IN  Res(again.heap, again.out, try.ran + again.ran)

\* (mutant) the values are kept in one list shared by every stage: the
\* wrapper appends to its own list and returns itself
get_one_arg_shared(h, o, a) ==
    IF Len(a) # 1 THEN Res(h, ArityError("get_one_arg", 1, Len(a)), 0)
    ELSE LET self == CHOOSE r \in DOMAIN h : h[r] = o
             b    == o.bound \o a
             try  == Call(h, o.func, b)
         IN  IF except_TypeError(try.out)
             THEN Res([try.heap EXCEPT ![self].bound = b], Ret(FnV(self)), try.ran)
             ELSE try

\* def get_one_arg(arg):
\*     try: return func(arg)
\*     except TypeError:
\*         applied_one_arg = fst_arg_curry(func)(arg)
\*         return curry(applied_one_arg)
get_one_arg(h, o, a) ==
    IF Len(a) # 1 THEN Res(h, ArityError("get_one_arg", 1, Len(a)), 0)
    ELSE LET try == Call(h, o.func, a)
         IN  IF except_TypeError(try.out)
             THEN LET d       == fst_arg_curry(try.heap, o.func)
                      applied == Call(d.heap, d.ref, a)
                      c       == curry(applied.heap, applied.out.val.ref)
                  IN  Res(c.heap, Ret(FnV(c.ref)), try.ran + applied.ran)
             ELSE try

\* (mutant) def get_other_args(arg): the remainder is one value
get_other_args_unary(h, o, a) ==
    IF Len(a) # 1 THEN Res(h, ArityError("get_other_args", 1, Len(a)), 0)
    ELSE Call(h, o.func, get_other_args_argv(o, a))

\* (mutant) with too few values for a target, the values are remembered
\* and another closure is returned
get_other_args_more(h, o, a) ==
    IF h[o.func].kind = "target" /\ Len(o.bound) + Len(a) < h[o.func].arity
    THEN LET n == Alloc(h, Closure("get_other_args", o.func, o.bound \o a))
         IN  Res(n.heap, Ret(FnV(n.ref)), 0)
    ELSE Call(h, o.func, get_other_args_argv(o, a))

\* def get_other_args(*args): return uncurried_func(x, *args)
get_other_args(h, o, a) == Call(h, o.func, get_other_args_argv(o, a))

\* def recebe_ultimo(arg): return func(*args, arg)
recebe_ultimo(h, o, a) ==
    IF Len(a) # 1 THEN Res(h, ArityError("recebe_ultimo", 1, Len(a)), 0)
    ELSE Call(h, o.func, recebe_ultimo_argv(o, a))

\* def get_last_arg(arg): return func(*args, arg)
get_last_arg(h, o, a) ==
    IF Len(a) # 1 THEN Res(h, ArityError("get_last_arg", 1, Len(a)), 0)
    ELSE Call(h, o.func, get_last_arg_argv(o, a))

\* (mutant) the function with one more value is tried with no further
\* value, and its result is returned when it has one
keep_currying_it_get_one_arg_try(h, o, a) ==
    IF Len(a) # 1 THEN Res(h, ArityError("get_one_arg", 1, Len(a)), 0)
    ELSE LET d       == fst_arg_curry(h, o.func)
             applied == Call(d.heap, d.ref, a)
             try     == Call(applied.heap, applied.out.val.ref, <<>>)
             k       == keep_currying_it(applied.heap, applied.out.val.ref)
         IN  IF try.out.tag = "ret" THEN Res(try.heap, try.out, try.ran)
             ELSE Res(k.heap, Ret(FnV(k.ref)), applied.ran)

\* def get_one_arg(arg):                          (of keep_currying_it)
\*     get_one_arg_curried_func = fst_arg_curry(func)
\*     applied_one_arg = get_one_arg_curried_func(arg)
\*     return keep_currying_it(applied_one_arg)
keep_currying_it_get_one_arg(h, o, a) ==
    IF Len(a) # 1 THEN Res(h, ArityError("get_one_arg", 1, Len(a)), 0)
    ELSE LET d       == fst_arg_curry(h, o.func)
             applied == Call(d.heap, d.ref, a)
             k       == keep_currying_it(applied.heap, applied.out.val.ref)
         IN  Res(k.heap, Ret(FnV(k.ref)), applied.ran)

\* an operation of a body on a value of the wrong type, or a call of a
\* value that is no function
BodyTypeError(o) == Raise("TypeError", o.body, "body")

\* def fact(rec, n):
\*     if n==0: return 1
\*     else: return n*rec(n-1)
fact(h, o, a) ==
    LET rec == a[1]
        m   == a[2]
    IN  IF m.t # "int" THEN Res(h, BodyTypeError(o), 1)
        ELSE IF m.n = 0 THEN Res(h, Ret(IntV(1)), 1)
        ELSE IF ~IsFn(rec) THEN Res(h, BodyTypeError(o), 1)
        ELSE LET r == Call(h, rec.ref, <<IntV(m.n - 1)>>)
             IN  IF r.out.tag = "raise" THEN Res(r.heap, r.out, r.ran + 1)
                 ELSE IF r.out.val.t # "int"
                      THEN Res(r.heap, BodyTypeError(o), r.ran + 1)
                      ELSE Res(r.heap, Ret(IntV(m.n * r.out.val.n)), r.ran + 1)

\* def func(rec, n): an arbitrary function of this shape; it goes on with
\* rec(n-1) until n is 0, and its value is what it was given and what rec
\* returned
func_rec(h, o, a) ==
    LET rec == a[1]
        m   == a[2]
    IN  IF m.t # "int" THEN Res(h, BodyTypeError(o), 1)
        ELSE IF m.n = 0 THEN Res(h, Ret(TupV(<<rec, m>>)), 1)
        ELSE IF ~IsFn(rec) THEN Res(h, BodyTypeError(o), 1)
        ELSE LET r == Call(h, rec.ref, <<IntV(m.n - 1)>>)
             IN  IF r.out.tag = "raise" THEN Res(r.heap, r.out, r.ran + 1)
                 ELSE Res(r.heap, Ret(TupV(<<rec, m, r.out.val>>)), r.ran + 1)

\* t_menos_recursao(*a), t an int: the body calls the global name
t_menos_recursao(h, o, a) ==
    IF Len(a) # 1 THEN Res(h, ArityError("t_menos_recursao", 1, Len(a)), 0)
    ELSE LET t == a[1]
         IN  IF t.n = 0
             THEN Res(print(h, Launch("t_menos_recursao")), Ret(NoneV), 1)
             ELSE LET r == Call(print(h, Line(t.n)), o.func, <<IntV(t.n - 1)>>)
                  IN  IF r.out.tag = "raise" THEN Res(r.heap, r.out, r.ran + 1)
                      ELSE Res(r.heap, Ret(NoneV), r.ran + 1)

\* (mutant) the body of t_menos with rec(t-1) before the print
t_menos_rec_first(h, o, a) ==
    LET rec == a[1]
        t   == a[2]
    IN  IF t.n = 0 THEN Res(print(h, Launch("t_menos")), Ret(NoneV), 1)
        ELSE LET r == Call(h, rec.ref, <<IntV(t.n - 1)>>)
             IN  IF r.out.tag = "raise" THEN Res(r.heap, r.out, r.ran + 1)
                 ELSE Res(print(r.heap, Line(t.n)), Ret(NoneV), r.ran + 1)

\* the body of  def t_menos(rec, t), t an int
t_menos(h, o, a) ==
    LET rec == a[1]
        t   == a[2]
    IN  IF t.n = 0 THEN Res(print(h, Launch("t_menos")), Ret(NoneV), 1)
        ELSE LET r == Call(print(h, Line(t.n)), rec.ref, <<IntV(t.n - 1)>>)
             IN  IF r.out.tag = "raise" THEN Res(r.heap, r.out, r.ran + 1)
                 ELSE Res(r.heap, Ret(NoneV), r.ran + 1)

\* calling a function written for decorador_y: bind rec and n, run the body
rec_target_call(h, o, a) ==
    IF Len(a) # o.arity THEN Res(h, ArityError(o.body, o.arity, Len(a)), 0)
    ELSE IF o.body = "fact" THEN fact(h, o, a)
    ELSE IF o.body = "t_menos" THEN t_menos(h, o, a)
    ELSE func_rec(h, o, a)

\* (mutant) func(func_auto_aplicada, param): the one-parameter function
\* passes itself, not the two-parameter function it closes over
func_auto_aplicada_self(h, o, a) ==
    IF Len(a) # 1 THEN Res(h, ArityError("func_auto_aplicada", 1, Len(a)), 0)
    ELSE LET self == CHOOSE r \in DOMAIN h : h[r] = o
         IN  Call(h, o.func, <<FnV(self), a[1]>>)

\* def func_auto_aplicada(param): return func(func, param)
func_auto_aplicada(h, o, a) ==
    IF Len(a) # 1 THEN Res(h, ArityError("func_auto_aplicada", 1, Len(a)), 0)
    ELSE Call(h, o.func, <<FnV(o.func), a[1]>>)

\* (mutant) func_param is handed on as it came, without auto_aplicador
nova_func_unwrapped(h, o, a) ==
    IF Len(a) # 2 THEN Res(h, ArityError("nova_func", 2, Len(a)), 0)
    ELSE Call(h, o.func, <<a[1], a[2]>>)

\* def nova_func(func_param, t):
\*     func_param = auto_aplicador(func_param)
\*     return func(func_param, t)
nova_func(h, o, a) ==
    IF Len(a) # 2 THEN Res(h, ArityError("nova_func", 2, Len(a)), 0)
    ELSE LET func_param == auto_aplicador(h, a[1].ref)
         IN  Call(func_param.heap, o.func, <<FnV(func_param.ref), a[2]>>)

\* the call  r(*a)  on heap h
Call(h, r, a) ==
    LET o == h[r]
    IN  CASE o.kind = "target"          -> target_call(h, o, a)
          [] o.kind = "get_fst_arg"     -> get_fst_arg(h, o, a)
          [] o.kind = "get_other_args"  -> get_other_args(h, o, a)
          [] o.kind = "get_one_arg"     -> get_one_arg(h, o, a)
          [] o.kind = "func_sem_ultimo" -> func_sem_ultimo(h, o, a)
          [] o.kind = "recebe_ultimo"   -> recebe_ultimo(h, o, a)
          [] o.kind = "func_with_last_applied" -> func_with_last_applied(h, o, a)
          [] o.kind = "get_last_arg"    -> get_last_arg(h, o, a)
          [] o.kind = "curry_n_args"    -> curry_n_args_call(h, o, a)
          [] o.kind = "keep_currying_it_get_one_arg" ->
                                           keep_currying_it_get_one_arg(h, o, a)
          [] o.kind = "rec_target"      -> rec_target_call(h, o, a)
          [] o.kind = "func_auto_aplicada" -> func_auto_aplicada(h, o, a)
          [] o.kind = "nova_func"       -> nova_func(h, o, a)
          [] o.kind = "t_menos_loop"    -> t_menos_loop(h, o, a)
          [] o.kind = "t_menos_recursao" -> t_menos_recursao(h, o, a)

\* (mutant) the signature of a wrapper is read through to the function it
\* wraps, as it is for a wrapper that carries __wrapped__
RECURSIVE numero_de_parametros_wrapped(_, _)
numero_de_parametros_wrapped(h, func) ==
    IF h[func].kind = "target" THEN h[func].arity
    ELSE numero_de_parametros_wrapped(h, h[func].func)

\* def numero_de_parametros(func): return len(signature(func).parameters)
\* a target declares arity parameters, curry_n_args(n, func) and
\* nova_func(func_param, t) declare two, and every other closure of the
\* source declares one parameter (x, arg, param, or the single variadic
\* *args)
numero_de_parametros(h, func) ==
    IF h[func].kind \in {"target", "rec_target"} THEN h[func].arity
    ELSE IF h[func].kind \in {"curry_n_args", "nova_func"} THEN 2
    ELSE 1

\* for _ in range(k): func = curry_ultimo(func)
RECURSIVE curry_ultimo_times(_, _, _)
curry_ultimo_times(h, func, k) ==
    IF k <= 0 THEN [heap |-> h, ref |-> func]
    ELSE LET c == curry_ultimo(h, func)
         IN  curry_ultimo_times(c.heap, c.ref, k - 1)

\* (mutant) for _ in range(n): one application too many
curry_tudo_range_n(h, func) ==
    curry_ultimo_times(h, func, numero_de_parametros(h, func))

\* def curry_tudo(func):
\*     n = numero_de_parametros(func)
\*     for _ in range(n - 1): func = curry_ultimo(func)
\*     return func
curry_tudo(h, func) ==
    curry_ultimo_times(h, func, numero_de_parametros(h, func) - 1)


(* ----------------------------- the state ------------------------------ *)
VARIABLES
    heap,    \* the function objects allocated so far
    f,       \* the reference of the target function
    deco,    \* the decorator applied to it: "", "curry" or "curry_tudo"
    g,       \* the reference the decorated name is bound to (0: none yet)
    chain,   \* per caller: the value it holds and the calls it has made
    last,    \* the call made last, and what it did
    redeco,  \* the re-decoration curry_tudo(g), once made
    nargs,   \* the number n given to curry_n_args or curry(n) (0: none)
    stack,   \* the frames of the calls under way, the innermost one last
    pending  \* the call a caller has under way, and what was returned to
             \* the innermost frame (c = 0: no call under way)

vars == <<heap, f, deco, g, chain, last, redeco, nargs, stack, pending>>

\* the callers: one chain of calls, and a second one forked from it
Chains == {1, 2}

Idle == [cur |-> NoneV, calls |-> <<>>]

NoLast ==
    [c |-> 0, callee |-> 0, bound |-> <<>>, args |-> <<>>, out |-> NoCall,
     alloc |-> 0, ran |-> 0]

NoRedeco == [done |-> FALSE, from |-> 0, to |-> 0, alloc |-> 0]

NoPending ==
    [c |-> 0, callee |-> 0, args |-> <<>>, heap0 |-> <<>>, ret |-> NoCall,
     steps |-> 0, ran |-> 0]

\* the values a wrapper holds, in the order the target will get them:
\* get_one_arg holds what the get_other_args closures under it hold (and
\* closes over no value itself), recebe_ultimo holds its args
RECURSIVE BoundArgs(_, _)
BoundArgs(h, r) ==
    LET o == h[r]
    IN  CASE o.kind = "get_one_arg"    -> BoundArgs(h, o.func) \o o.bound
          [] o.kind = "get_other_args" -> BoundArgs(h, o.func) \o o.bound
          [] o.kind = "recebe_ultimo"  -> o.bound
          [] o.kind = "get_last_arg"   -> o.bound
          [] o.kind = "keep_currying_it_get_one_arg" -> BoundArgs(h, o.func)
          [] OTHER                     -> <<>>

\* all the values of the accepted calls of a chain, in supply order
RECURSIVE Flat(_)
Flat(cs) == IF cs = <<>> THEN <<>> ELSE Head(cs) \o Flat(Tail(cs))

Init ==
    /\ heap \in {<<t>> : t \in Targets}
    /\ f = Len(heap)
    /\ deco = ""
    /\ g = 0
    /\ chain = [c \in Chains |-> Idle]
    /\ last = NoLast
    /\ redeco = NoRedeco
    /\ nargs = 0
    /\ stack = <<>>
    /\ pending = NoPending

\* @decorator  def target(...): the name is rebound to decorator(target)
Decorate(name, d) ==
    /\ deco = ""
    /\ deco' = name
    /\ heap' = d.heap
    /\ g' = d.ref
    /\ chain' = [chain EXCEPT ![1] = [cur |-> FnV(d.ref), calls |-> <<>>]]
    /\ UNCHANGED <<f, last, redeco, nargs, stack, pending>>

Decorate_curry      == Decorate("curry", curry(heap, f))
Decorate_curry_tudo == Decorate("curry_tudo", curry_tudo(heap, f))

\* g = curry_tudo(g): decorating the decorated function once more
Redecorate ==
    /\ deco = "curry_tudo"
    /\ ~redeco.done
    /\ chain[1].calls = <<>>
    /\ chain[2] = Idle
    /\ LET d == curry_tudo(heap, g)
       IN  /\ heap' = d.heap
           /\ g' = d.ref
           /\ chain' = [chain EXCEPT ![1] = [cur |-> FnV(d.ref), calls |-> <<>>]]
           /\ redeco' = [done |-> TRUE, from |-> g, to |-> d.ref,
                         alloc |-> Len(d.heap) - Len(heap)]
    /\ UNCHANGED <<f, deco, last, nargs, stack, pending>>

\* caller c calls the callable it holds with the values a; when the call
\* returns, the caller goes on with the value returned; when it raises, the
\* caller still holds what it held
Invoke(c, a) ==
    /\ IsFn(chain[c].cur)
    /\ Len(chain[c].calls) < MaxCalls
    /\ LET r == Call(heap, chain[c].cur.ref, a)
       IN  /\ heap' = r.heap
           /\ last' = [c |-> c, callee |-> chain[c].cur.ref,
                       bound |-> BoundArgs(heap, chain[c].cur.ref),
                       args |-> a, out |-> r.out,
                       alloc |-> Len(r.heap) - Len(heap), ran |-> r.ran]
           /\ chain' = IF r.out.tag = "ret"
                       THEN [chain EXCEPT ![c] =
                               [cur |-> r.out.val, calls |-> Append(@.calls, a)]]
                       ELSE chain
    /\ UNCHANGED <<f, deco, g, redeco, nargs, stack, pending>>

\* w(v): one value per call
CallOne ==
    /\ deco # ""
    /\ \E v \in Vals : Invoke(1, <<v>>)
\* w(): no value
CallZero ==
    /\ deco # ""
    /\ Invoke(1, <<>>)
\* w(v, w): two values in one call
CallTwo ==
    /\ deco # ""
    /\ \E v, w \in Vals : Invoke(1, <<v, w>>)

Next ==
    \/ Decorate_curry
    \/ Decorate_curry_tudo
    \/ Redecorate
    \/ CallOne
    \/ CallZero
    \/ CallTwo

Spec == Init /\ [][Next]_vars

(* ------------- two chains continued from one wrapper ------------------ *)
\* h = g(v1)..(vk): a second caller takes the wrapper the first one holds
\* and both go on calling, in any interleaving
Fork ==
    /\ deco = "curry"
    /\ chain[2] = Idle
    /\ IsFn(chain[1].cur)
    /\ chain' = [chain EXCEPT ![2] = chain[1]]
    /\ UNCHANGED <<heap, f, deco, g, last, redeco, nargs, stack, pending>>

\* each caller supplies up to A values, its own int or None
CallBy1 ==
    /\ Len(chain[1].calls) < heap[f].arity
    /\ \E v \in {IntV(1), NoneV} : Invoke(1, <<v>>)
CallBy2 ==
    /\ Len(chain[2].calls) < heap[f].arity
    /\ \E v \in {IntV(2), NoneV} : Invoke(2, <<v>>)

NextFork ==
    \/ Decorate_curry
    \/ Fork
    \/ CallBy1
    \/ CallBy2

SpecFork == Init /\ [][NextFork]_vars

(* ---------------- the decorator that is told the arity ---------------- *)
\* the numbers given as n: every arity, and one more than the largest
Ns == 1..(MaxArity + 1)

\* curry = curry_last(curry_n_args), the decorator taking n first
curry_n(h) ==
    LET d == Alloc(h, curry_n_args_def)
    IN  curry_last(d.heap, d.ref)

\* the decorated name is bound to d.ref, made with the number k
DecorateN(name, k, d) ==
    /\ deco = ""
    /\ deco' = name
    /\ nargs' = k
    /\ heap' = d.heap
    /\ g' = d.ref
    /\ chain' = [chain EXCEPT ![1] = [cur |-> FnV(d.ref), calls |-> <<>>]]
    /\ UNCHANGED <<f, last, redeco, stack, pending>>

\* g = curry_n_args(k, f)
Decorate_curry_n_args ==
    \E k \in Ns : DecorateN("curry_n_args", k, curry_n_args(heap, k, f))

\* @curry(k)  def f(...)
Decorate_curry_n ==
    \E k \in Ns :
        LET c       == curry_n(heap)
            with_n  == Call(c.heap, c.ref, <<IntV(k)>>)
            with_f  == Call(with_n.heap, with_n.out.val.ref, <<FnV(f)>>)
        IN  DecorateN("curry_n", k, [heap |-> with_f.heap, ref |-> with_f.out.val.ref])

NextN ==
    \/ Decorate_curry_n_args
    \/ Decorate_curry_n
    \/ CallOne

SpecN == Init /\ [][NextN]_vars

(* ------------- the decorators that curry one argument only ------------ *)
Decorate_fst_arg_curry == Decorate("fst_arg_curry", fst_arg_curry(heap, f))

\* @fst_arg_curry @fst_arg_curry  def f(...)
Decorate_fst_arg_curry_twice ==
    LET once == fst_arg_curry(heap, f)
    IN  Decorate("fst_arg_curry_twice", fst_arg_curry(once.heap, once.ref))

Decorate_curry_last == Decorate("curry_last", curry_last(heap, f))

\* @curry_last @curry_last  def f(...)
Decorate_curry_last_twice ==
    LET once == curry_last(heap, f)
    IN  Decorate("curry_last_twice", curry_last(once.heap, once.ref))

Decorate_keep_currying_it ==
    Decorate("keep_currying_it", keep_currying_it(heap, f))

\* the lists of three values and more given in one call
RECURSIVE ArgLists(_)
ArgLists(k) ==
    IF k = 0 THEN {<<>>}
    ELSE {Append(a, v) : a \in ArgLists(k - 1), v \in {IntV(1), IntV(2)}}

\* w(v1, v2, v3, ..): three values and more in one call
CallMore ==
    /\ deco # ""
    /\ \E k \in 3..MaxArity : \E a \in ArgLists(k) : Invoke(1, a)

NextPartial ==
    \/ Decorate_fst_arg_curry
    \/ Decorate_fst_arg_curry_twice
    \/ Decorate_curry_last
    \/ Decorate_curry_last_twice
    \/ Decorate_keep_currying_it
    \/ CallOne
    \/ CallZero
    \/ CallTwo
    \/ CallMore

SpecPartial == Init /\ [][NextPartial]_vars

(* ------------------ recursion through decorador_y --------------------- *)
InitY ==
    /\ heap \in {<<t>> : t \in RecTargets}
    /\ f = Len(heap)
    /\ deco = ""
    /\ g = 0
    /\ chain = [c \in Chains |-> Idle]
    /\ last = NoLast
    /\ redeco = NoRedeco
    /\ nargs = 0
    /\ stack = <<>>
    /\ pending = NoPending

\* @decorador_y  def fact(rec, n)
Decorate_decorador_y == Decorate("decorador_y", decorador_y(heap, f))

\* the decorated name is called with the values a; the caller keeps the
\* value returned and may call the name again
InvokeName(a) ==
    /\ deco # ""
    /\ Len(chain[1].calls) < MaxRuns
    /\ LET r == Call(heap, g, a)
       IN  /\ heap' = r.heap
           /\ last' = [c |-> 1, callee |-> g, bound |-> <<>>,
                       args |-> a, out |-> r.out,
                       alloc |-> Len(r.heap) - Len(heap), ran |-> r.ran]
           /\ chain' = [chain EXCEPT ![1] =
                          [cur   |-> IF r.out.tag = "ret" THEN r.out.val ELSE @.cur,
                           calls |-> Append(@.calls, a)]]
    /\ UNCHANGED <<f, deco, g, redeco, nargs, stack, pending>>

\* fact(m)
CallName == \E m \in 0..MaxN : InvokeName(<<IntV(m)>>)
\* fact()
CallNameZero == InvokeName(<<>>)
\* fact(m, k)
CallNameTwo == InvokeName(<<IntV(MaxN), IntV(0)>>)

NextY ==
    \/ Decorate_decorador_y
    \/ CallName
    \/ CallNameZero
    \/ CallNameTwo

SpecY == InitY /\ [][NextY]_vars

(* ------------------- the two final wrappers of one f ------------------ *)
\* a = curry(f) of currier.py and b = curry_tudo(f) of currier_pt.py, made
\* of the same f: caller 1 goes on from a, caller 2 from b
Decorate_curry_and_curry_tudo ==
    /\ deco = ""
    /\ LET a == curry(heap, f)
           b == curry_tudo(a.heap, f)
       IN  /\ heap' = b.heap
           /\ g' = a.ref
           /\ chain' = [c \in Chains |->
                          [cur   |-> FnV(IF c = 1 THEN a.ref ELSE b.ref),
                           calls |-> <<>>]]
    /\ deco' = "curry_and_curry_tudo"
    /\ UNCHANGED <<f, last, redeco, nargs, stack, pending>>

\* a(v1)..(vk), up to A values, one per call
CallCurry ==
    /\ deco = "curry_and_curry_tudo"
    /\ Len(chain[1].calls) < heap[f].arity
    /\ \E v \in Vals : Invoke(1, <<v>>)
\* b(v1)..(vk), one value per call, each call after the call a's caller
\* made at that place
CallCurryTudo ==
    /\ deco = "curry_and_curry_tudo"
    /\ Len(chain[2].calls) < Len(chain[1].calls)
    /\ \E v \in Vals : Invoke(2, <<v>>)

NextBoth ==
    \/ Decorate_curry_and_curry_tudo
    \/ CallCurry
    \/ CallCurryTudo

SpecBoth == Init /\ [][NextBoth]_vars

(* ------------------------ the three countdowns ------------------------ *)
\* the module after one of the three definitions of the countdown
InitT ==
    /\ heap \in {<<stdout_def, t_menos_loop_def>>,
                 <<stdout_def, t_menos_recursao_def(Len(<<stdout_def>>) + 1)>>,
                 <<stdout_def, RecTarget("t_menos")>>}
    /\ f = Len(heap)
    /\ deco = ""
    /\ g = 0
    /\ chain = [c \in Chains |-> Idle]
    /\ last = NoLast
    /\ redeco = NoRedeco
    /\ nargs = 0
    /\ stack = <<>>
    /\ pending = NoPending

\* def t_menos_loop(t) / def t_menos_recursao(t): the name is the function
Define_t_menos ==
    /\ heap[f].kind \in {"t_menos_loop", "t_menos_recursao"}
    /\ Decorate(heap[f].kind, [heap |-> heap, ref |-> f])

\* @auto_aplicador  @auto_aplica_func_interna  def t_menos(rec, t)
Decorate_t_menos ==
    /\ heap[f].kind = "rec_target"
    /\ LET inner == auto_aplica_func_interna(heap, f)
       IN  Decorate("t_menos", auto_aplicador(inner.heap, inner.ref))

NextT ==
    \/ Define_t_menos
    \/ Decorate_t_menos
    \/ CallName

SpecT == InitT /\ [][NextT]_vars

(* -------------- one call of a wrapper, frame by frame ----------------- *)
\* The calls a wrapper makes while it is called, one step for each entry
\* of a function and one for each return to a function that is waiting.
\* A frame is the function called, its arguments and where it stands:
\* "enter" (about to bind its parameters and run), "return" (waiting for a
\* call whose outcome is its own), "try" (get_one_arg waiting inside its
\* try), "applied" (get_one_arg waiting for fst_arg_curry(func)(arg)).
Frame(fn, args, pc) == [fn |-> fn, args |-> args, pc |-> pc]

Top(st)       == st[Len(st)]
Pop(st)       == SubSeq(st, 1, Len(st) - 1)
Wait(st, pc)  == [st EXCEPT ![Len(st)].pc = pc]

\* the effect of a step: the heap, the frames, the outcome handed to the
\* frame now innermost (NoCall: a callee was entered) and the runs of the
\* target body
Effect(h, st, ret, ran) == [heap |-> h, stack |-> st, ret |-> ret, ran |-> ran]

\* a function that makes no call of its own ends in the step that enters it
Leaf(st, r) == Effect(r.heap, Pop(st), r.out, r.ran)

\* frame fr waits with pc, and func(*a) is entered
Enters(h, st, pc, func, a) ==
    Effect(h, Append(Wait(st, pc), Frame(func, a, "enter")), NoCall, 0)

\* the innermost frame is entered
enter(h, st) ==
    LET fr == Top(st)
        o  == h[fr.fn]
        a  == fr.args
    IN  CASE o.kind = "target"          -> Leaf(st, target_call(h, o, a))
          [] o.kind = "get_fst_arg"     -> Leaf(st, get_fst_arg(h, o, a))
          [] o.kind = "func_sem_ultimo" -> Leaf(st, func_sem_ultimo(h, o, a))
          [] o.kind = "get_other_args"  ->
                Enters(h, st, "return", o.func, get_other_args_argv(o, a))
          [] o.kind = "recebe_ultimo"   ->
                IF Len(a) # 1
                THEN Effect(h, Pop(st), ArityError("recebe_ultimo", 1, Len(a)), 0)
                ELSE Enters(h, st, "return", o.func, recebe_ultimo_argv(o, a))
          [] o.kind = "get_one_arg"     ->
                IF Len(a) # 1
                THEN Effect(h, Pop(st), ArityError("get_one_arg", 1, Len(a)), 0)
                ELSE Enters(h, st, "try", o.func, a)

\* (mutant) except TypeError: return curry(func)(arg), the same call again
get_one_arg_except_again(h, st, r) ==
    LET fr == Top(st)
        c  == curry(h, h[fr.fn].func)
    IN  Enters(c.heap, st, "return", c.ref, fr.args)

\* except TypeError: applied_one_arg = fst_arg_curry(func)(arg)
get_one_arg_except(h, st, r) ==
    LET fr == Top(st)
        d  == fst_arg_curry(h, h[fr.fn].func)
    IN  Enters(d.heap, st, "applied", d.ref, fr.args)

\* return curry(applied_one_arg)
get_one_arg_return(h, st, r) ==
    LET c == curry(h, r.val.ref)
    IN  Effect(c.heap, Pop(st), Ret(FnV(c.ref)), 0)

\* the outcome r of a call comes back to the innermost frame
resume(h, st, r) ==
    LET fr == Top(st)
    IN  CASE fr.pc = "return"  -> Effect(h, Pop(st), r, 0)
          [] fr.pc = "try"     ->
                IF except_TypeError(r) THEN get_one_arg_except(h, st, r)
                ELSE Effect(h, Pop(st), r, 0)
          [] fr.pc = "applied" -> get_one_arg_return(h, st, r)

\* caller c calls the wrapper it holds with one value
Begin ==
    /\ deco # ""
    /\ stack = <<>>
    /\ pending.c = 0
    /\ \E c \in {1}, v \in Vals :
          /\ IsFn(chain[c].cur)
          /\ Len(chain[c].calls) < MaxCalls
          /\ stack' = <<Frame(chain[c].cur.ref, <<v>>, "enter")>>
          /\ pending' = [c |-> c, callee |-> chain[c].cur.ref, args |-> <<v>>,
                          heap0 |-> heap, ret |-> NoCall, steps |-> 0, ran |-> 0]
    /\ UNCHANGED <<heap, f, deco, g, chain, last, redeco, nargs>>

\* the interpreter goes on: its effect e is applied
Run(e) ==
    /\ heap' = e.heap
    /\ stack' = e.stack
    /\ pending' = [pending EXCEPT !.ret = e.ret, !.steps = @ + 1,
                                   !.ran = @ + e.ran]
    /\ UNCHANGED <<f, deco, g, chain, last, redeco, nargs>>

Enter ==
    /\ stack # <<>>
    /\ Top(stack).pc = "enter"
    /\ Run(enter(heap, stack))

Resume ==
    /\ stack # <<>>
    /\ Top(stack).pc # "enter"
    /\ Run(resume(heap, stack, pending.ret))

\* the call is over: the caller has its outcome, as in Invoke
End ==
    /\ stack = <<>>
    /\ pending.c # 0
    /\ last' = [c |-> pending.c, callee |-> pending.callee,
                bound |-> BoundArgs(pending.heap0, pending.callee),
                args |-> pending.args, out |-> pending.ret,
                alloc |-> Len(heap) - Len(pending.heap0), ran |-> pending.ran]
    /\ chain' = IF pending.ret.tag = "ret"
                THEN [chain EXCEPT ![pending.c] =
                        [cur |-> pending.ret.val,
                         calls |-> Append(@.calls, pending.args)]]
                ELSE chain
    /\ pending' = NoPending
    /\ UNCHANGED <<heap, f, deco, g, redeco, nargs, stack>>

NextStep ==
    \/ Decorate_curry
    \/ Decorate_curry_tudo
    \/ Begin
    \/ Enter
    \/ Resume
    \/ End

\* the interpreter is single-threaded and never suspends a call: a step
\* that can be taken is taken
SpecStep ==
    Init /\ [][NextStep]_vars /\ WF_vars(Enter) /\ WF_vars(Resume)

(* ------------------------- reading the state -------------------------- *)
\* the target function and its arity
Target == heap[f]
Arity  == heap[f].arity

\* every accepted call of the chain supplied exactly one value
Singles(c) == \A i \in 1..Len(chain[c].calls) : Len(chain[c].calls[i]) = 1

\* the values the chain supplied, in supply order
Supplied(c) == Flat(chain[c].calls)

\* f(v1, .., vn) computed directly
Direct(a) == TargetBody(Target, a)

\* the values are valid for f: f applied to them returns
ValidFor(a) == Len(a) = Arity /\ Direct(a).tag = "ret"

\* the call made last was made on a wrapper of the decorator d
LastOn(d) == deco = d /\ last.c # 0

\* the number of curry_ultimo applications made: each one allocates one
\* func_sem_ultimo closure
Applications == Cardinality({r \in DOMAIN heap : heap[r].kind = "func_sem_ultimo"})

\* the reference reached from r through k closures
RECURSIVE Under(_, _)
Under(r, k) == IF k = 0 THEN r ELSE Under(heap[r].func, k - 1)

(* ------------------------------ claims -------------------------------- *)

\* C1: under curry (Strategy A), supplying v1..vA one per call, with the
\* values valid for f, returns exactly f(v1, .., vA): the values reach f in
\* the order they were supplied.
Thm_C1 ==
    \A c \in Chains :
        (deco = "curry" /\ ValidFor(Supplied(c)))
            => chain[c].cur = Direct(Supplied(c)).val

\* a chain of three or more calls on curry(f) ended with f's value, for an
\* f whose value shows the order of two different arguments
Wit_C1 ==
    /\ deco = "curry"
    /\ Arity >= 3
    /\ ValidFor(Supplied(1))
    /\ chain[1].cur.t = "tup"
    /\ chain[1].cur.args[1] # chain[1].cur.args[2]

\* C2: curry_tudo (Strategy B) reads A from the signature of f and applies
\* curry_ultimo exactly A-1 times, each application wrapping the result of
\* the one before, and supplying v1..vA one per call, with the values valid
\* for f, returns exactly f(v1, .., vA).
Thm_C2 ==
    deco = "curry_tudo" =>
        /\ Applications = Arity - 1
        /\ Under(g, Arity - 1) = f
        /\ \A c \in Chains :
              (Singles(c) /\ ValidFor(Supplied(c)))
                  => chain[c].cur = Direct(Supplied(c)).val

Wit_C2 ==
    /\ deco = "curry_tudo"
    /\ Arity >= 3
    /\ Singles(1)
    /\ ValidFor(Supplied(1))
    /\ chain[1].cur.t = "tup"
    /\ chain[1].cur.args[1] # chain[1].cur.args[2]

\* the outcome of calling f itself with the values a
OfTarget(a) == target_call(heap, Target, a).out

\* the call made last returned a new wrapper that holds the values b
NewWrapper(b) ==
    /\ last.out.tag = "ret"
    /\ IsFn(last.out.val)
    /\ last.out.val.ref > last.callee
    /\ BoundArgs(heap, last.out.val.ref) = b

\* C3 (as claimed): under curry with A >= 2, after k single-value calls,
\* 1 <= k < A, the chain holds a unary wrapper with exactly those k values
\* in order; and a call with one new value on a wrapper with k < A bound
\* values yields the target's result iff k+1 = A and a new wrapper with
\* k+1 bound values iff k+1 < A.
Cex_C3 ==
    (deco = "curry" /\ Arity >= 2) =>
        /\ \A c \in Chains :
              (1 <= Len(chain[c].calls) /\ Len(chain[c].calls) < Arity) =>
                  /\ IsFn(chain[c].cur)
                  /\ heap[chain[c].cur.ref].kind = "get_one_arg"
                  /\ BoundArgs(heap, chain[c].cur.ref) = Supplied(c)
        /\ (last.c # 0 /\ Len(last.args) = 1 /\ Len(last.bound) < Arity) =>
              LET all == last.bound \o last.args
              IN  /\ (last.out = OfTarget(all)) <=> (Len(all) = Arity)
                  /\ NewWrapper(all) <=> (Len(all) < Arity)

\* the call made last left the caller with the wrapper it called, and that
\* wrapper with the values it held
Untouched ==
    /\ last.alloc = 0
    /\ last.ran = 0
    /\ chain[last.c].cur = FnV(last.callee)
    /\ BoundArgs(heap, last.callee) = last.bound

\* C4: under curry, every stage is a get_one_arg, and a call with two
\* values to any stage raises the too-many-arguments TypeError of
\* get_one_arg itself: the target is not invoked, nothing is allocated and
\* neither value is bound.
Thm_C4 ==
    /\ \A c \in Chains :
          (deco = "curry" /\ IsFn(chain[c].cur))
              => heap[chain[c].cur.ref].kind = "get_one_arg"
    /\ (LastOn("curry") /\ Len(last.args) = 2) =>
          /\ last.out = Raise("TypeError", "get_one_arg", "too_many")
          /\ Untouched

\* add_4(1)(2)(3, 4): two values in one call to a stage that holds two
Wit_C4 ==
    /\ LastOn("curry")
    /\ Len(last.args) = 2
    /\ Len(last.bound) = 2
    /\ last.out.tag = "raise"

\* C5: under curry, a call with no value to any stage raises the
\* missing-argument TypeError of get_one_arg: the target is not invoked and
\* no new wrapper is produced.
Thm_C5 ==
    (LastOn("curry") /\ Len(last.args) = 0) =>
        /\ last.out = Raise("TypeError", "get_one_arg", "missing")
        /\ Untouched

\* add_4(1)(2)(): no value in a call to a stage that holds two
Wit_C5 ==
    /\ LastOn("curry")
    /\ Len(last.args) = 0
    /\ Len(last.bound) = 2
    /\ last.out.tag = "raise"

\* C6 (as claimed): under curry_tudo every stage, the first included,
\* accepts exactly one value per call: a call with no value or with two
\* values raises a usage error (TypeError, missing / too many) at that call.
Cex_C6 ==
    (LastOn("curry_tudo") /\ Len(last.args) # 1) =>
        /\ last.out.tag = "raise"
        /\ last.out.exc = "TypeError"
        /\ last.out.why = (IF Len(last.args) = 0 THEN "missing" ELSE "too_many")
        /\ Untouched

\* the trial invocation func(arg) of the get_one_arg called last (objects
\* are never changed, so it gives now what it gave then)
Trial == Call(heap, heap[last.callee].func, last.args).out

\* C7 (as claimed): under curry only a too-few-arguments failure of the
\* trial invocation is turned into a new wrapper; every other outcome of
\* the trial invocation, every other failure included, is what the call
\* gives, and no wrapper is returned in its place.
Cex_C7 ==
    (LastOn("curry") /\ Len(last.args) = 1) =>
        IF Trial.tag = "raise" /\ Trial.exc = "TypeError" /\ Trial.why = "missing"
        THEN NewWrapper(last.bound \o last.args)
        ELSE last.out = Trial

\* C9: re-decorating under curry_tudo is a no-op: curry_tudo(curry_tudo(f))
\* applies curry_ultimo zero further times and returns the very callable
\* curry_tudo(f), curry_tudo(f) is f itself when f has one parameter, and
\* the chain of calls gives f(v1, .., vA) after the re-decoration as before.
Thm_C9 ==
    /\ (deco = "curry_tudo" /\ Arity = 1) => g = f
    /\ redeco.done =>
          /\ redeco.alloc = 0
          /\ redeco.to = redeco.from
          /\ g = redeco.from
          /\ Applications = Arity - 1
          /\ \A c \in Chains :
                (Singles(c) /\ ValidFor(Supplied(c)))
                    => chain[c].cur = Direct(Supplied(c)).val

\* a re-decorated function of three or more parameters was called to the end
Wit_C9 ==
    /\ redeco.done
    /\ Arity >= 3
    /\ Singles(1)
    /\ ValidFor(Supplied(1))
    /\ chain[1].cur = Direct(Supplied(1)).val

\* C10: under curry the body of f runs only at the A-th single-value call
\* of a chain, and once: a call on a wrapper that holds k values is the
\* (k+1)-th call of its chain, the body runs once in it when k+1 = A and
\* not at all otherwise, and a call allocates nothing unless it returns a
\* new wrapper.
Thm_C10 ==
    LastOn("curry") =>
        /\ last.ran = (IF Len(last.args) = 1 /\ Len(last.bound) + 1 = Arity
                       THEN 1 ELSE 0)
        /\ last.out.tag = "ret" => Len(chain[last.c].calls) = Len(last.bound) + 1
        /\ Len(last.bound) = Len(Supplied(last.c)) - (IF last.out.tag = "ret" THEN 1 ELSE 0)
        /\ last.alloc > 0 => (last.out.tag = "ret" /\ IsFn(last.out.val))

\* the A-th call of a chain on a target of three or more parameters ran the
\* body, after calls that did not
Wit_C10 ==
    /\ LastOn("curry")
    /\ Arity >= 3
    /\ Len(last.bound) + 1 = Arity
    /\ last.ran = 1

\* no object of the heap is changed or dropped by a step
Immutable == \A r \in DOMAIN heap : r \in DOMAIN heap' /\ heap'[r] = heap[r]

\* what a chain holds depends on its own calls only
OwnValuesOnly ==
    \A c \in Chains :
        /\ IsFn(chain[c].cur) => BoundArgs(heap, chain[c].cur.ref) = Supplied(c)
        /\ ValidFor(Supplied(c)) => chain[c].cur = Direct(Supplied(c)).val

\* C8: wrappers share no mutable state: a call leaves every existing
\* wrapper as it was and yields a new one, so when two chains are continued
\* from one wrapper, under every interleaving of their calls each wrapper
\* holds the values of its own chain and each chain returns f applied to
\* its own values.
Thm_C8 == [][Immutable]_vars /\ []OwnValuesOnly

\* two chains forked from h = g(a) ended with different values of f
Wit_C8 ==
    /\ chain[1].calls # <<>>
    /\ chain[2].calls # <<>>
    /\ chain[1].calls[1] = chain[2].calls[1]
    /\ ValidFor(Supplied(1))
    /\ ValidFor(Supplied(2))
    /\ Arity >= 3
    /\ chain[1].cur = Direct(Supplied(1)).val
    /\ chain[2].cur = Direct(Supplied(2)).val
    /\ chain[1].cur # chain[2].cur
    /\ last.c = 1

\* the number of curry_last applications made: each one allocates one
\* func_with_last_applied closure
ApplicationsLast ==
    Cardinality({r \in DOMAIN heap : heap[r].kind = "func_with_last_applied"})

\* the defs met from r down to the first function that is not a closure
RECURSIVE Layers(_, _)
Layers(h, r) ==
    IF h[r].kind \in {"target", "rec_target", "curry_n_args"} THEN <<h[r]>>
    ELSE <<h[r].kind>> \o Layers(h, h[r].func)

\* C11: curry_n_args(n, f) applies curry_last exactly n-1 times, each
\* application wrapping the result of the one before; when n is the arity
\* of f, both curry_n_args(n, f) and curry(n)(f) return f(v1, .., vn) after
\* v1..vn were supplied one per call; and curry(n)(f) is built as
\* curry_n_args(n, f) is: the same closures around the same f.
Thm_C11 ==
    /\ deco = "curry_n_args" => ApplicationsLast = nargs - 1
    /\ deco \in {"curry_n_args", "curry_n"} =>
          /\ Under(g, nargs - 1) = f
          /\ LET d == curry_n_args(heap, nargs, f)
             IN  Layers(heap, g) = Layers(d.heap, d.ref)
          /\ \A c \in Chains :
                (nargs = Arity /\ ValidFor(Supplied(c)))
                    => chain[c].cur = Direct(Supplied(c)).val

\* three values supplied one per call to curry(3)(f) gave f's value, for an
\* f whose value shows the order of two different arguments
Wit_C11 ==
    /\ deco = "curry_n"
    /\ nargs = Arity
    /\ Arity >= 3
    /\ ValidFor(Supplied(1))
    /\ chain[1].cur.t = "tup"
    /\ chain[1].cur.args[1] # chain[1].cur.args[2]

\* the position, along its chain, of the call made last
LastIndex == Len(last.bound) + 1

\* C18: under curry_n_args(n, f), whatever the arity of f, each of the
\* first n-1 single-value calls returns a new wrapper without invoking f,
\* and the n-th call invokes f with exactly the n values supplied: its
\* outcome is the outcome of f(v1, .., vn), which is f's arity error when
\* n is not the arity (missing argument if n < A, too many if n > A).
Thm_C18 ==
    (deco = "curry_n_args" /\ last.c # 0) =>
        /\ LastIndex <= nargs
        /\ LastIndex < nargs =>
              /\ NewWrapper(last.bound \o last.args)
              /\ last.ran = 0
        /\ LastIndex = nargs =>
              /\ last.out = OfTarget(last.bound \o last.args)
              /\ nargs < Arity =>
                    last.out = Raise("TypeError", TargetName(Target), "missing")
              /\ nargs > Arity =>
                    last.out = Raise("TypeError", TargetName(Target), "too_many")
              /\ nargs # Arity => last.ran = 0

\* n = 2 given for a 3-parameter f: the second call raised f's
\* missing-argument error
Wit_C18 ==
    /\ deco = "curry_n_args"
    /\ nargs = 2
    /\ Arity = 3
    /\ LastIndex = 2
    /\ last.out = Raise("TypeError", TargetName(Target), "missing")

\* the def of the callable that the call made last was made on
LastKind == heap[last.callee].kind

\* C13: under fst_arg_curry, the first call takes one value x and returns
\* a closure remembering it, and the second call takes all the remaining
\* values at once: its outcome is the outcome of f(x, r1, .., r(A-1)).
Thm_C13 ==
    (deco = "fst_arg_curry" /\ last.c # 0) =>
        /\ (LastKind = "get_fst_arg" /\ Len(last.args) = 1) =>
              /\ NewWrapper(last.args)
              /\ last.ran = 0
        /\ LastKind = "get_other_args" =>
              /\ Len(last.bound) = 1
              /\ last.out = OfTarget(last.bound \o last.args)
        /\ \A c \in Chains :
              (Len(chain[c].calls) = 2 /\ ValidFor(Supplied(c)))
                  => chain[c].cur = Direct(Supplied(c)).val

\* fst_arg_curry(f)(x)(r1, r2) gave f's value for a 3-parameter f whose
\* value shows the order of two different arguments
Wit_C13 ==
    /\ deco = "fst_arg_curry"
    /\ Arity = 3
    /\ Len(chain[1].calls) = 2
    /\ Len(chain[1].calls[2]) = 2
    /\ ValidFor(Supplied(1))
    /\ chain[1].cur.t = "tup"
    /\ chain[1].cur.args[1] # chain[1].cur.args[2]

\* C14: under curry_last, a first call with the values v1..v(A-1) and a
\* second call with vA have the outcome of f(v1, .., vA); and curry_last
\* applied twice to a 3-parameter f gives f(v1, v2, v3) after v1, v2, v3
\* were supplied one per call.
Thm_C14 ==
    /\ (deco = "curry_last" /\ last.c # 0 /\ LastKind = "get_last_arg"
          /\ Len(last.args) = 1)
          => last.out = OfTarget(last.bound \o last.args)
    /\ deco = "curry_last" =>
          \A c \in Chains :
              (Len(chain[c].calls) = 2 /\ Len(chain[c].calls[2]) = 1
                  /\ ValidFor(Supplied(c)))
                  => chain[c].cur = Direct(Supplied(c)).val
    /\ (deco = "curry_last_twice" /\ Arity = 3) =>
          \A c \in Chains :
              (Singles(c) /\ ValidFor(Supplied(c)))
                  => chain[c].cur = Direct(Supplied(c)).val

\* curry_last(f)(v1, v2)(v3) gave f's value for a 3-parameter f whose
\* value shows the order of two different arguments
Wit_C14 ==
    /\ deco = "curry_last"
    /\ Arity = 3
    /\ Len(chain[1].calls) = 2
    /\ Len(chain[1].calls[1]) = 2
    /\ ValidFor(Supplied(1))
    /\ chain[1].cur.t = "tup"
    /\ chain[1].cur.args[1] # chain[1].cur.args[2]

\* C15: under keep_currying_it every single-value call, however many were
\* made before it, returns a new unary wrapper holding the values supplied
\* so far, raises nothing and runs the target zero times: no chain ever
\* holds a value of the target.
Thm_C15 ==
    deco = "keep_currying_it" =>
        /\ (last.c # 0 /\ Len(last.args) = 1) =>
              /\ NewWrapper(last.bound \o last.args)
              /\ heap[last.out.val.ref].kind = "keep_currying_it_get_one_arg"
              /\ last.ran = 0
        /\ \A c \in Chains : chain[c].cur # NoneV => IsFn(chain[c].cur)

\* more single values than f has parameters were supplied, and the chain
\* still holds a wrapper
Wit_C15 ==
    /\ deco = "keep_currying_it"
    /\ Singles(1)
    /\ Len(chain[1].calls) > Arity
    /\ ValidFor(SubSeq(Supplied(1), 1, Arity))
    /\ IsFn(chain[1].cur)
    /\ last.ran = 0

\* C16: under fst_arg_curry applied twice, g(a) returns a closure and
\* g(a)(b) raises the too-many-arguments TypeError of the inner
\* get_fst_arg, which receives a and b; no chain of single-value calls
\* gets past g(a), and the target never runs in one.
Thm_C16 ==
    deco = "fst_arg_curry_twice" =>
        /\ (last.c # 0 /\ Singles(last.c) /\ Len(last.args) = 1) =>
              /\ LastKind = "get_fst_arg" => NewWrapper(last.args)
              /\ LastKind = "get_other_args" =>
                    /\ heap[heap[last.callee].func].kind = "get_fst_arg"
                    /\ last.out = Raise("TypeError", "get_fst_arg", "too_many")
                    /\ last.alloc = 0
              /\ last.ran = 0
        /\ \A c \in Chains : Singles(c) => Len(chain[c].calls) <= 1

\* g(a)(b) raised at the inner get_fst_arg, for a 3-parameter f
Wit_C16 ==
    /\ deco = "fst_arg_curry_twice"
    /\ Arity = 3
    /\ Len(chain[1].calls) = 1
    /\ last.c = 1
    /\ LastKind = "get_other_args"
    /\ Len(last.args) = 1
    /\ last.out = Raise("TypeError", "get_fst_arg", "too_many")

\* C17: under fst_arg_curry of a target with three parameters or more,
\* g(x)(y) with fewer values than remain calls f with too few arguments:
\* it raises f's own missing-argument TypeError and returns no callable;
\* and g() raises the missing-argument TypeError of get_fst_arg. The body
\* of f runs in neither.
Thm_C17 ==
    (deco = "fst_arg_curry" /\ Arity >= 3 /\ last.c # 0) =>
        /\ (LastKind = "get_other_args" /\ Len(last.args) < Arity - 1) =>
              /\ last.out = Raise("TypeError", TargetName(Target), "missing")
              /\ last.ran = 0
              /\ last.alloc = 0
        /\ (LastKind = "get_fst_arg" /\ last.args = <<>>) =>
              /\ last.out = Raise("TypeError", "get_fst_arg", "missing")
              /\ last.ran = 0
              /\ last.alloc = 0

\* g(x)(y) raised the missing-argument error of a 3-parameter f
Wit_C17 ==
    /\ deco = "fst_arg_curry"
    /\ last.c = 1
    /\ Arity = 3
    /\ LastKind = "get_other_args"
    /\ Len(last.args) = 1
    /\ last.out = Raise("TypeError", TargetName(Target), "missing")

\* n!
RECURSIVE Factorial(_)
Factorial(m) == IF m = 0 THEN 1 ELSE m * Factorial(m - 1)

\* C12: fact decorated with decorador_y, called with an integer m >= 0,
\* ends and returns m!; its body runs m + 1 times, once for each of
\* m, m-1, .., 0.
Thm_C12 ==
    (deco = "decorador_y" /\ Target.body = "fact" /\ last.c # 0
        /\ Len(last.args) = 1)
        => /\ last.out = Ret(IntV(Factorial(last.args[1].n)))
           /\ last.ran = last.args[1].n + 1

\* fact(5) returned 120
Wit_C12 ==
    /\ deco = "decorador_y"
    /\ Target.body = "fact"
    /\ last.args = <<IntV(5)>>
    /\ last.out = Ret(IntV(120))

\* a value with every function in it replaced by the closure it refers to
RECURSIVE Shape(_, _)
Shape(h, v) ==
    IF v.t = "fn" THEN h[v.ref]
    ELSE IF v.t = "tup"
         THEN [t |-> "tup", args |-> [i \in DOMAIN v.args |-> Shape(h, v.args[i])]]
         ELSE v

\* the outcome of a call, with the functions of its value replaced so
ShapeOf(r) == [r.out EXCEPT !.val = Shape(r.heap, r.out.val)]

\* the rec values that func was handed, at every depth, read off the value
\* func(rec, m) returned
RECURSIVE Handed(_)
Handed(v) ==
    {v.args[1]} \cup (IF Len(v.args) = 3 THEN Handed(v.args[3]) ELSE {})

\* the call R(*a) has the outcome of F(*a)
LikeF(R, a) == ShapeOf(Call(heap, R.ref, a)) = ShapeOf(Call(heap, g, a))

\* C20: F = decorador_y(func) takes one value, F(m) is func(R, m) for the
\* rec value R that func was handed, and every R handed to func, at every
\* depth, is a one-parameter function made as F was (func_auto_aplicada
\* over the same nova_func) that behaves as F does on every call: with one
\* value, with none and with two.
Thm_C20 ==
    (deco = "decorador_y" /\ last.c # 0) =>
        /\ Len(last.args) # 1 =>
              last.out = ArityError("func_auto_aplicada", 1, Len(last.args))
        /\ Len(last.args) = 1 =>
              /\ last.out.tag = "ret"
              /\ ShapeOf(Call(heap, f, <<FnV(g)>> \o last.args))
                    = [last.out EXCEPT !.val = Shape(heap, @)]
        /\ (Len(last.args) = 1 /\ Target.body = "func") =>
              /\ ShapeOf(Call(heap, f, <<last.out.val.args[1]>> \o last.args))
                    = [last.out EXCEPT !.val = Shape(heap, @)]
              /\ \A R \in Handed(last.out.val) :
                    /\ IsFn(R)
                    /\ R.ref # g
                    /\ heap[R.ref] = heap[g]
                    /\ numero_de_parametros(heap, R.ref) = 1
                    /\ \A m \in 0..MaxN : LikeF(R, <<IntV(m)>>)
                    /\ LikeF(R, <<>>)
                    /\ LikeF(R, <<IntV(0), IntV(0)>>)
              /\ Cardinality(Handed(last.out.val)) = last.args[1].n + 1

\* func was handed a rec value at three depths and more, each of them a
\* function of its own
Wit_C20 ==
    /\ deco = "decorador_y"
    /\ Target.body = "func"
    /\ last.c # 0
    /\ Len(last.args) = 1
    /\ last.out.tag = "ret"
    /\ Cardinality(Handed(last.out.val)) >= 3

\* f is total: it returns a value whatever values it is given
Total ==
    \A a \in [1..Arity -> Vals] : TargetBody(Target, a).tag = "ret"

\* a call is under way, or over and not yet taken by its caller
Calling == pending.c # 0
Over    == pending.c # 0 /\ stack = <<>>

\* the call under way, as Call makes it
AsCall == Call(pending.heap0, pending.callee, pending.args)

\* the values held by the wrapper that is being called
Held == BoundArgs(pending.heap0, pending.callee)

\* every call under way takes a bounded number of steps and of frames:
\* at most one frame for the wrapper, one for each value it holds and one
\* for the target, each entered once and returned to once, and two steps
\* more for the except branch
Bounded ==
    (deco \in {"curry", "curry_tudo"} /\ Calling) =>
        /\ Len(stack) <= Len(Held) + 2
        /\ pending.steps <= 2 * Len(Held) + 5

\* a call that is over has returned or raised, and has done what Call does
Ended ==
    (deco \in {"curry", "curry_tudo"} /\ Over) =>
        /\ pending.ret.tag \in {"ret", "raise"}
        /\ pending.ret = AsCall.out
        /\ heap = AsCall.heap
        /\ pending.ran = AsCall.ran

\* for a total f, the k-th call returns a wrapper for k < A and the value
\* of f for k = A, and none raises
Reaches ==
    (deco \in {"curry", "curry_tudo"} /\ Total) =>
        /\ Over => pending.ret.tag = "ret"
        /\ \A c \in Chains :
              /\ Len(chain[c].calls) <= Arity
              /\ (chain[c].calls # <<>> /\ Len(chain[c].calls) < Arity)
                    => IsFn(chain[c].cur)
              /\ Len(chain[c].calls) = Arity
                    => chain[c].cur = Direct(Supplied(c)).val

\* C19: every single-value call on a curry or curry_tudo wrapper ends:
\* it takes a bounded number of steps, and once under way it is over
\* after finitely many of them, having returned a value or a new wrapper
\* or raised; and for a total f a chain of single-value calls holds a
\* wrapper after fewer than A calls and f's value after exactly A.
Thm_C19 ==
    /\ []Bounded
    /\ []Ended
    /\ []Reaches
    /\ (Calling ~> Over)

\* the third call on a curry wrapper of a total 3-parameter f is over: it
\* went through the wrapper, the two closures under it and f, and it
\* returned f's value
Wit_C19 ==
    /\ deco = "curry"
    /\ Total
    /\ Arity = 3
    /\ Over
    /\ Len(Held) = 2
    /\ pending.steps >= 7
    /\ pending.ret = Direct(Held \o pending.args)

(* ------------------------ the three countdowns ------------------------ *)
\* what has been written to sys.stdout
Stdout == heap[CHOOSE r \in DOMAIN heap : heap[r].kind = "stdout"].bound

\* what a line tells: the value counted, or -1 for a launch
Event(line) == IF line.text = "T menos" THEN line.n ELSE -1

\* t, t-1, ..., 1 and then one launch
Countdown(t) == [i \in 1..(t + 1) |-> IF i <= t THEN t - i + 1 ELSE -1]

Countdowns == {"t_menos", "t_menos_loop", "t_menos_recursao"}

\* C21: for every t >= 0 each of t_menos(t) (under auto_aplicador over
\* auto_aplica_func_interna), t_menos_recursao(t) and t_menos_loop(t)
\* writes the values t, t-1, ..., 1 in that order and then exactly one
\* launch message, and returns: after any calls of one of them the output
\* is the countdowns of the values called with, one after the other.
Thm_C21 ==
    deco \in Countdowns =>
        /\ [i \in 1..Len(Stdout) |-> Event(Stdout[i])]
              = Flat([i \in 1..Len(chain[1].calls) |->
                        Countdown(chain[1].calls[i][1].n)])
        /\ last.c = 1 => last.out = Ret(NoneV)

\* t_menos(5) as in the source, after t_menos(0): seven lines written, the
\* last six being 5, 4, 3, 2, 1 and the launch, through six runs of the body
Wit_C21 ==
    /\ deco = "t_menos"
    /\ chain[1].calls = <<(<<IntV(0)>>), (<<IntV(MaxN)>>)>>
    /\ Len(Stdout) = MaxN + 2
    /\ Stdout[2] = Line(MaxN)
    /\ Stdout[MaxN + 1] = Line(1)
    /\ Stdout[MaxN + 2] = Launch("t_menos")
    /\ last.ran = MaxN + 1
    /\ last.out = Ret(NoneV)

(* ---------------------- the two final strategies ---------------------- *)
\* the values a can be completed to values valid for f
ValidPrefix(a) ==
    /\ Len(a) <= Arity
    /\ \E rest \in [1..(Arity - Len(a)) -> Vals] : ValidFor(a \o rest)

\* C22: for a target f of arity A >= 1 and single-value calls v1..vk,
\* k <= A, with values valid for f, curry(f) of currier.py and
\* curry_tudo(f) of currier_pt.py give the same outcome after each call:
\* no call raises, both hold a callable when k < A, and both hold the
\* value f(v1..vA) when k = A.
Thm_C22 ==
    deco = "curry_and_curry_tudo" =>
        /\ (last.c # 0 /\ last.out.tag = "raise")
              => ~ValidPrefix(Supplied(last.c) \o last.args)
        /\ (chain[1].calls = chain[2].calls /\ ValidPrefix(Supplied(1)))
              => /\ Len(chain[1].calls) < Arity
                      => IsFn(chain[1].cur) /\ IsFn(chain[2].cur)
                 /\ Len(chain[1].calls) = Arity
                      => /\ chain[1].cur = Direct(Supplied(1)).val
                         /\ chain[2].cur = Direct(Supplied(1)).val

\* both wrappers of a 3-parameter f that rejects None were called with 1,
\* then 2, then 1, and both callers hold f(1, 2, 1)
Wit_C22 ==
    /\ deco = "curry_and_curry_tudo"
    /\ Arity = 3
    /\ Target.body = "func"
    /\ Target.exc = "TypeError"
    /\ chain[1].calls = <<(<<IntV(1)>>), (<<IntV(2)>>), (<<IntV(1)>>)>>
    /\ chain[2].calls = chain[1].calls
    /\ chain[1].cur = TupV(<<IntV(1), IntV(2), IntV(1)>>)
    /\ chain[2].cur = chain[1].cur

=============================================================================
